---- MODULE Spec2Model ----
(***************************************************************************)
(* Model of pyuploadcare/file.py: the File and FileGroup handles, their    *)
(* lazily fetched metadata caches, and the store / delete / ensure_on_cdn  *)
(* polling loops, against an API server that may answer any metadata.      *)
(*                                                                         *)
(* Python values are records tagged with field t, so that None, strings    *)
(* and mappings can be compared with each other.  A string is a sequence   *)
(* of tokens; the token "u" stands for one 36-character UUID, "http" for   *)
(* the scheme prefix of a URL and "/-/" for the effects separator.         *)
(* Time is counted in poll intervals: time.sleep(0.1) is one unit, and a    *)
(* request completes within the interval in which it was issued.           *)
(***************************************************************************)
EXTENDS Integers, Sequences, FiniteSets, TLC

\* ---------------------------------------------------------------- bounds
\* largest timeout a caller passes to store / delete / ensure_on_cdn
MaxTimeout == 1

\* timeout=5 (seconds) of store, delete, ensure_on_s3, ensure_on_cdn, in poll
\* intervals of 0.1 s
DefaultTimeout == 50
\* time.sleep(0.1)
SleepTime == 1

\* ---------------------------------------------------------- Python values
None == [t |-> "None"]
Str(s) == [t |-> "str", s |-> s]
Bool(b) == [t |-> "bool", b |-> b]
IntVal(n) == [t |-> "int", n |-> n]
\* the mapping with no keys, {}
EmptyInfo == [t |-> "dict"]

\* Python truth value of None, a string or a mapping
Truthy(v) ==
    CASE v.t = "None" -> FALSE
      [] v.t = "str"  -> v.s # << >>
      [] v.t = "bool" -> v.b
      [] v.t = "int"  -> v.n # 0
      [] v.t = "dict" -> DOMAIN v # {"t"}

HasKey(d, k) == d.t = "dict" /\ k \in DOMAIN d

\* -------------------------------------------------------------- strings
UuidTokens == {"u", "v"}
cdn_base == <<"http", "cdn/">>
Timestamp == Str(<<"ts">>)
OrigUrl == <<"http", "cdn/", "u", "/", "f">>

\* str.startswith('http')
StartsWithHttp(s) == Len(s) >= 1 /\ s[1] = "http"

\* UUID_WITH_EFFECTS_REGEX.search: position of the leftmost UUID, 0 if none
UuidPos(s) ==
    IF \E i \in 1..Len(s) : s[i] \in UuidTokens
    THEN CHOOSE i \in 1..Len(s) :
            /\ s[i] \in UuidTokens
            /\ \A j \in 1..(i - 1) : s[j] \notin UuidTokens
    ELSE 0

\* the longest prefix of s without a newline: what .* matches
RECURSIVE DotStar(_)
DotStar(s) ==
    IF s = << >> \/ Head(s) = "\n" THEN << >>
    ELSE <<Head(s)>> \o DotStar(Tail(s))

\* the groups uuid and effects of the match at position i
MatchUuid(s, i) == Str(<<s[i]>>)
MatchEffects(s, i) ==
    IF i + 1 <= Len(s) /\ s[i + 1] = "/-/"
    THEN Str(DotStar(SubSeq(s, i + 2, Len(s))))
    ELSE None

\* ------------------------------------------------------------ File.__init__
NoFile == [t |-> "nofile"]

\* a constructor that takes the whole string for the file_id when it finds
\* no UUID in it
NewFile_Unchecked(s) ==
    IF UuidPos(s) = 0
    THEN [t |-> "File", file_id |-> Str(s), default_effects |-> None,
          _cached_url |-> IF StartsWithHttp(s) THEN Str(s) ELSE None,
          _info |-> None]
    ELSE [t |-> "File",
          file_id |-> MatchUuid(s, UuidPos(s)),
          default_effects |-> MatchEffects(s, UuidPos(s)),
          _cached_url |-> IF StartsWithHttp(s) THEN Str(s) ELSE None,
          _info |-> None]

NewFile(s) ==
    IF UuidPos(s) = 0 THEN NoFile
    ELSE [t |-> "File",
          file_id |-> MatchUuid(s, UuidPos(s)),
          default_effects |-> MatchEffects(s, UuidPos(s)),
          _cached_url |-> IF StartsWithHttp(s) THEN Str(s) ELSE None,
          _info |-> None]

\* a load_file_from_cache that leaves the record out of the handle
load_file_from_cache_NoInfo(file_info) == NewFile(file_info.uuid.s)

\* load_file_from_cache
load_file_from_cache(file_info) ==
    IF NewFile(file_info.uuid.s) = NoFile THEN NoFile
    ELSE [NewFile(file_info.uuid.s) EXCEPT !._info = file_info]

\* a cdn_url that leaves the effects out
FileCdnUrl_NoEffects(h) == cdn_base \o h.file_id.s \o <<"/">>

\* File.cdn_url
FileCdnUrl(h) ==
    IF Truthy(h.default_effects)
    THEN cdn_base \o h.file_id.s \o <<"/-/">> \o h.default_effects.s
    ELSE cdn_base \o h.file_id.s \o <<"/">>

\* ------------------------------------------------------- FileGroup.__init__
Digits == {"0", "1", "2"}
DigitValue(c) == CASE c = "0" -> 0 [] c = "1" -> 1 [] c = "2" -> 2

\* the longest prefix of s made of digits: what \d+ matches
RECURSIVE DigitRun(_)
DigitRun(s) ==
    IF s = << >> \/ Head(s) \notin Digits THEN << >>
    ELSE <<Head(s)>> \o DigitRun(Tail(s))

\* int() of a string of digits
RECURSIVE IntOf(_)
IntOf(s) ==
    IF s = << >> THEN 0
    ELSE 10 * IntOf(SubSeq(s, 1, Len(s) - 1)) + DigitValue(s[Len(s)])

\* where GROUP_ID_REGEX matches at position i: a UUID, "~", digits
GroupMatchAt(s, i) ==
    /\ i + 2 <= Len(s)
    /\ s[i] \in UuidTokens
    /\ s[i + 1] = "~"
    /\ s[i + 2] \in Digits

\* GROUP_ID_REGEX.search: position of the leftmost match, 0 if none
GroupPos(s) ==
    IF \E i \in 1..Len(s) : GroupMatchAt(s, i)
    THEN CHOOSE i \in 1..Len(s) :
            /\ GroupMatchAt(s, i)
            /\ \A j \in 1..(i - 1) : ~GroupMatchAt(s, j)
    ELSE 0

NoGroup == [t |-> "nogroup"]

\* a constructor without the files_qty <= 0 test of lines 230-231
NewGroup_AcceptsZero(s) ==
    LET i == GroupPos(s)
        qty == DigitRun(SubSeq(s, i + 2, Len(s)))
    IN IF i = 0 THEN NoGroup
       ELSE [t |-> "FileGroup",
             group_id |-> Str(<<s[i], "~">> \o qty),
             _files_qty |-> IntOf(qty),
             _info_cache |-> None]

NewGroup(s) ==
    LET i == GroupPos(s)
        qty == DigitRun(SubSeq(s, i + 2, Len(s)))
    IN IF i = 0 THEN NoGroup
       ELSE IF IntOf(qty) <= 0 THEN NoGroup
       ELSE [t |-> "FileGroup",
             group_id |-> Str(<<s[i], "~">> \o qty),
             _files_qty |-> IntOf(qty),
             _info_cache |-> None]

\* ------------------------------------------------------------- the server
\* what GET /files/{uuid}/ may answer: a metadata record (a file that is
\* there has a public URL, a removed file has none), or a mapping without
\* the expected fields
FileRecords ==
    {[t |-> "dict", uuid |-> Str(<<"u">>), on_s3 |-> b, last_keep_claim |-> k,
      removed |-> r[1], original_file_url |-> r[2]] :
        b \in BOOLEAN, k \in {None, Timestamp},
        r \in {<<None, Str(OrigUrl)>>, <<Timestamp, None>>}}
FileInfos == FileRecords \cup {EmptyInfo}

\* what GET /groups/{group_id}/ and PUT /groups/{group_id}/storage/ may
\* answer: the files in slot order (a slot may be null) and datetime_stored,
\* or a mapping without the expected fields
FileOnCdn ==
    [t |-> "dict", uuid |-> Str(<<"u">>), on_s3 |-> TRUE,
     last_keep_claim |-> Timestamp, removed |-> None,
     original_file_url |-> Str(OrigUrl)]
FileUploaded ==
    [t |-> "dict", uuid |-> Str(<<"u">>), on_s3 |-> FALSE,
     last_keep_claim |-> None, removed |-> None,
     original_file_url |-> Str(OrigUrl)]
GroupFileLists == {<<FileOnCdn, FileUploaded>>, <<FileUploaded, None>>}
GroupRecords ==
    {[t |-> "dict", datetime_stored |-> d, files |-> fs] :
        d \in {None, Timestamp}, fs \in GroupFileLists}
GroupInfos == GroupRecords \cup {EmptyInfo}

\* File.api_uri, File.storage_uri
api_uri(h) == <<"/files/">> \o h.file_id.s \o <<"/">>
storage_uri(h) == <<"/files/">> \o h.file_id.s \o <<"/storage/">>
\* FileGroup.api_uri, FileGroup.api_storage_uri
group_api_uri(gr) == <<"/groups/">> \o gr.group_id.s \o <<"/">>
api_storage_uri(gr) == <<"/groups/">> \o gr.group_id.s \o <<"/storage/">>

\* requests, as (method, url, status of the response); make_request returns
\* the body of a successful response
GetFile(h) == <<"GET", api_uri(h), 200>>
PutFileStorage(h) == <<"PUT", storage_uri(h), 200>>
DeleteFile(h) == <<"DELETE", api_uri(h), 200>>
HeadCdn(h, status) == <<"HEAD", FileCdnUrl(h), status>>
GetGroup(gr) == <<"GET", group_api_uri(gr), 200>>
PutGroupStorage(gr) == <<"PUT", api_storage_uri(gr), 200>>
\* what the CDN may answer to HEAD cdn_url
HeadStatuses == {200, 404}

\* the constructor inputs tried
Identifiers ==
    {<<"u">>,
     <<"http", "cdn/", "u", "/">>,
     <<"u", "/-/", "e">>}
GroupIdentifiers ==
    {<<"u", "~", "2">>}
\* the strings FileGroup is constructed from later on: counts 2, 1, 0, 10
\* and 01, no count, no UUID, a URL, and a count of 0 before a count of 2
GroupStrings ==
    {<<"u", "~", "2">>, <<"u", "~", "1">>, <<"u", "~", "0">>,
     <<"u", "~", "1", "0">>, <<"u", "~", "0", "1">>,
     <<"u", "~">>, <<"u">>, <<"x", "~", "2">>,
     <<"http", "cdn/", "u", "~", "2", "/">>,
     <<"u", "~", "0", "/", "u", "~", "2">>}

\* the strings File is constructed from later on: every string of at most
\* MaxLen tokens
MaxLen == 3
Alphabet == {"u", "v", "http", "/-/", "e", "x", "\n"}
FileStrings == UNION {[1..n -> Alphabet] : n \in 0..MaxLen}
\* the records load_file_from_cache is called with: what the server answers,
\* and a record whose uuid field holds no UUID
FileNoUuid ==
    [t |-> "dict", uuid |-> Str(<<"x">>), on_s3 |-> FALSE,
     last_keep_claim |-> None, removed |-> None,
     original_file_url |-> Str(OrigUrl)]
CacheInfos == FileInfos \cup {FileNoUuid}

\* --------------------------------------------------------------- the state
VARIABLES
    ident,          \* the string the File handle was constructed from
    f,              \* the File handle: file_id, default_effects, _cached_url, _info
    gident,         \* the string the FileGroup handle was constructed from
    g,              \* the FileGroup handle: group_id, _files_qty, _info_cache
    pc,             \* where the running call stands; "idle" between calls
    op,             \* the running call, or the last one: name and arguments
    outcome,        \* "running", "returned" or the exception raised
    ret,            \* what the last call returned
    clock,          \* time.time(), measured from the start of the call
    time_started,   \* the local time_started of the running loop
    log,            \* the requests issued by the call, in order
    lastResp,       \* the body of the last response of the call
    loopExit,       \* the info with which the wait loop of the call exited
    never_on_s3     \* every metadata response so far had on_s3 false

vars == <<ident, f, gident, g, pc, op, outcome, ret, clock, time_started, log, lastResp,
          loopExit, never_on_s3>>

\* a caller may also pass a timeout that is over before the call starts, down
\* to -MaxOverdue
MaxOverdue == 1
Timeouts == (0 - MaxOverdue)..MaxTimeout

Call(name, wait, timeout) == [name |-> name, wait |-> wait, timeout |-> timeout]

Init ==
    /\ ident \in Identifiers
    /\ f = NewFile(ident)
    /\ gident \in GroupIdentifiers
    /\ g = NewGroup(gident)
    /\ pc = "idle"
    /\ op = Call("__init__", FALSE, 0)
    /\ outcome = "returned"
    /\ ret = None
    /\ clock = 0
    /\ time_started = 0
    /\ log = << >>
    /\ lastResp = None
    /\ loopExit = None
    /\ never_on_s3 = TRUE

\* a metadata response that reports on_s3 false
OnS3False(resp) == HasKey(resp, "on_s3") /\ resp.on_s3 = FALSE

\* ------------------------------------------------ File: accessors (pure)
\* Each accessor is evaluated on a handle h; resp is what the server answers
\* if the accessor issues GET /files/{uuid}/.  The result has the info the
\* handle is left with, the requests issued, the exception raised ("none"
\* if none) and the value returned.
Result(info, reqs, exc, value) ==
    [info |-> info, log |-> reqs, exc |-> exc, value |-> value]

\* a handle that takes the URL of the metadata it fetched for its cached URL
After_CacheUrl(h, r) ==
    [h EXCEPT !._info = r.info,
              !._cached_url = IF HasKey(r.info, "original_file_url")
                              THEN r.info.original_file_url ELSE @]

\* the handle h with the info the evaluation r left
After(h, r) == [h EXCEPT !._info = r.info]

\* update_info that issues the GET and drops the response
UpdateInfoRun_Discard(h, resp) == Result(h._info, <<GetFile(h)>>, "none", None)

\* File.update_info
UpdateInfoRun(h, resp) == Result(resp, <<GetFile(h)>>, "none", None)

\* File.info
InfoGet(h, resp) ==
    IF ~Truthy(h._info)
    THEN [UpdateInfoRun(h, resp) EXCEPT
            !.value = UpdateInfoRun(h, resp).info]
    ELSE Result(h._info, << >>, "none", h._info)

\* self.info[key]
InfoItem(h, resp, key) ==
    LET r == InfoGet(h, resp)
    IN IF HasKey(r.value, key)
       THEN [r EXCEPT !.value = r.value[key]]
       ELSE [r EXCEPT !.exc = "KeyError", !.value = None]

\* File.is_on_s3
IsOnS3Get(h, resp) ==
    LET r == InfoItem(h, resp, "on_s3")
    IN IF r.exc = "none" THEN [r EXCEPT !.value = Bool(r.value)] ELSE r

\* File.is_stored
IsStoredGet(h, resp) ==
    LET r == InfoItem(h, resp, "last_keep_claim")
    IN IF r.exc = "none" THEN [r EXCEPT !.value = Bool(r.value # None)] ELSE r

\* is_removed that tests the presence of the key: 'removed' in self.info
IsRemovedGet_Present(h, resp) ==
    LET r == InfoItem(h, resp, "removed")
    IN IF r.exc = "none" THEN [r EXCEPT !.value = Bool(TRUE)] ELSE r

\* File.is_removed
IsRemovedGet(h, resp) ==
    LET r == InfoItem(h, resp, "removed")
    IN IF r.exc = "none" THEN [r EXCEPT !.value = Bool(r.value # None)] ELSE r

\* File.url
UrlGet(h, resp) ==
    IF Truthy(h._cached_url)
    THEN Result(h._info, << >>, "none", h._cached_url)
    ELSE InfoItem(h, resp, "original_file_url")

\* serialize that tests only self._info: "if self._info: return self.url"
SerializeGet_InfoOnly(h, resp) ==
    IF Truthy(h._info)
    THEN UrlGet(h, resp)
    ELSE Result(h._info, << >>, "none", h.file_id)

\* serialize that tests only self.url: "if self.url: return self.url"
SerializeGet_UrlOnly(h, resp) ==
    LET u1 == UrlGet(h, resp)
    IN IF u1.exc # "none" THEN u1
       ELSE IF Truthy(u1.value) THEN u1
       ELSE [u1 EXCEPT !.value = h.file_id]

\* File.serialize
SerializeGet(h, resp) ==
    IF Truthy(h._info)
    THEN LET u1 == UrlGet(h, resp)
             u2 == UrlGet(After(h, u1), resp)
         IN IF u1.exc # "none" THEN u1
            ELSE IF Truthy(u1.value)
                 THEN [u2 EXCEPT !.log = u1.log \o u2.log]
                 ELSE [u1 EXCEPT !.value = h.file_id]
    ELSE Result(h._info, << >>, "none", h.file_id)

\* self.is_on_s3 and self.is_stored
OnS3AndStored(h, resp) ==
    LET a == IsOnS3Get(h, resp)
        b == IsStoredGet(After(h, a), resp)
    IN IF a.exc # "none" \/ ~a.value.b THEN a
       ELSE [b EXCEPT !.log = a.log \o b.log]

\* ensure_on_cdn without the is_stored check of lines 116-117
CdnPrecondition_NoStoredCheck(h, resp) ==
    LET a == IsOnS3Get(h, resp)
    IN IF a.exc # "none" THEN a
       ELSE IF ~a.value.b
       THEN [a EXCEPT !.exc = "InvalidRequestError", !.value = None]
       ELSE a

\* File.ensure_on_cdn, lines 114-117; the value tells whether the checks passed
CdnPrecondition(h, resp) ==
    LET a == IsOnS3Get(h, resp)
        b == IsStoredGet(After(h, a), resp)
    IN IF a.exc # "none" THEN a
       ELSE IF ~a.value.b
       THEN [a EXCEPT !.exc = "InvalidRequestError", !.value = None]
       ELSE IF b.exc # "none" THEN [b EXCEPT !.log = a.log \o b.log]
       ELSE IF ~b.value.b
       THEN [b EXCEPT !.log = a.log \o b.log,
                      !.exc = "InvalidRequestError", !.value = None]
       ELSE [b EXCEPT !.log = a.log \o b.log]

\* a deadline that is over as soon as it is reached: >= for >
Expired_AtDeadline(now, started, timeout) == now - started >= timeout

\* time.time() - time_started > timeout
Expired(now, started, timeout) == now - started > timeout

\* a probe that takes any response for success
HeadOk_Any(status) == TRUE

\* resp.status_code == 200
HeadOk(status) == status = 200

\* ------------------------------------------------- File: construction
\* a constructor call named name with the string s ended: h is the handle it
\* made (NoFile and exc raised if it made none), which becomes the File
\* handle of the model
Constructed(name, s, h, exc) ==
    /\ pc = "idle"
    /\ op' = Call(name, FALSE, 0)
    /\ ident' = s
    /\ f' = h
    /\ outcome' = IF exc = "none" THEN "returned" ELSE exc
    /\ ret' = None
    /\ log' = << >>
    /\ lastResp' = None
    /\ clock' = 0
    /\ time_started' = 0
    /\ loopExit' = None
    /\ never_on_s3' = (h = NoFile \/ h._info = None \/ OnS3False(h._info))
    /\ UNCHANGED <<gident, g, pc>>

\* File(s, ucare)
FileInit ==
    \E s \in FileStrings :
        Constructed("File.__init__", s, NewFile(s),
                    IF NewFile(s) = NoFile THEN "InvalidRequestError"
                    ELSE "none")

\* load_file_from_cache(file_info, ucare)
LoadFileFromCache ==
    \E file_info \in CacheInfos :
        IF ~HasKey(file_info, "uuid")
        THEN Constructed("load_file_from_cache", << >>, NoFile, "KeyError")
        ELSE Constructed("load_file_from_cache", file_info.uuid.s,
                         load_file_from_cache(file_info),
                         IF load_file_from_cache(file_info) = NoFile
                         THEN "InvalidRequestError" ELSE "none")

\* File(h.cdn_url, ucare) for the handle h of the model
FromCdnUrl ==
    /\ f # NoFile
    /\ Constructed("File.__init__", FileCdnUrl(f), NewFile(FileCdnUrl(f)),
                   IF NewFile(FileCdnUrl(f)) = NoFile
                   THEN "InvalidRequestError" ELSE "none")

\* --------------------------------------------- File: calls of one step
\* the call name ran from start to end on the handle, with result r
OneShot(name, r, resp) ==
    /\ pc = "idle" /\ f # NoFile
    /\ op' = Call(name, FALSE, 0)
    /\ f' = After(f, r)
    /\ log' = r.log
    /\ lastResp' = IF r.log = << >> THEN None ELSE resp
    /\ never_on_s3' = (never_on_s3 /\ (r.log = << >> \/ OnS3False(resp)))
    /\ outcome' = IF r.exc = "none" THEN "returned" ELSE r.exc
    /\ ret' = r.value
    /\ clock' = 0
    /\ time_started' = 0
    /\ loopExit' = None
    /\ UNCHANGED <<ident, gident, g, pc>>

UpdateInfo ==
    \E resp \in FileInfos : OneShot("update_info", UpdateInfoRun(f, resp), resp)

Info ==
    \E resp \in FileInfos : OneShot("info", InfoGet(f, resp), resp)

IsOnS3 ==
    \E resp \in FileInfos : OneShot("is_on_s3", IsOnS3Get(f, resp), resp)

IsStored ==
    \E resp \in FileInfos : OneShot("is_stored", IsStoredGet(f, resp), resp)

IsRemoved ==
    \E resp \in FileInfos : OneShot("is_removed", IsRemovedGet(f, resp), resp)

Url ==
    \E resp \in FileInfos : OneShot("url", UrlGet(f, resp), resp)

Serialize ==
    \E resp \in FileInfos : OneShot("serialize", SerializeGet(f, resp), resp)

\* File.cdn_url, read by the caller
CdnUrlGet(h) == Result(h._info, << >>, "none", Str(FileCdnUrl(h)))

CdnUrl == OneShot("cdn_url", CdnUrlGet(f), None)

\* the tokens that end with a slash
SlashTokens == {"http", "cdn/", "/", "/-/"}
\* s.split('/')[-1]: what follows the last slash of s
RECURSIVE LastSegment(_)
LastSegment(s) ==
    IF s = << >> \/ s[Len(s)] \in SlashTokens THEN << >>
    ELSE Append(LastSegment(SubSeq(s, 1, Len(s) - 1)), s[Len(s)])

\* File.filename
FilenameGet(h, resp) ==
    LET u1 == UrlGet(h, resp)
        u2 == UrlGet(After(h, u1), resp)
    IN IF u1.exc # "none" THEN u1
       ELSE IF ~Truthy(u1.value) THEN [u1 EXCEPT !.value = Str(<< >>)]
       ELSE IF u2.exc # "none" THEN [u2 EXCEPT !.log = u1.log \o u2.log]
       ELSE [u2 EXCEPT !.log = u1.log \o u2.log,
                       !.value = Str(LastSegment(u2.value.s))]

Filename ==
    \E resp \in FileInfos : OneShot("filename", FilenameGet(f, resp), resp)

\* the widths and heights passed to cropped and resized
MaxDim == 1
Dims == {None} \cup {IntVal(n) : n \in 0..MaxDim}
\* str(n), '{0}'.format(n) for the numbers passed
DimStr(d) == IF d.n = 0 THEN <<"0">> ELSE IF d.n = 1 THEN <<"1">> ELSE <<"2">>

\* File.cropped
CroppedRun(h, width, height) ==
    IF ~Truthy(width) \/ ~Truthy(height)
    THEN Result(h._info, << >>, "InvalidRequestError", None)
    ELSE Result(h._info, << >>, "none",
                Str(FileCdnUrl(h) \o <<"-/crop/">> \o DimStr(width)
                    \o <<"x">> \o DimStr(height) \o <<"/">>))

\* File.resized
ResizedRun(h, width, height) ==
    IF ~Truthy(width) /\ ~Truthy(height)
    THEN Result(h._info, << >>, "InvalidRequestError", None)
    ELSE Result(h._info, << >>, "none",
                Str(FileCdnUrl(h) \o <<"-/resize/">>
                    \o (IF Truthy(width) THEN DimStr(width) ELSE << >>)
                    \o (IF Truthy(height) THEN <<"x">> \o DimStr(height)
                        ELSE << >>)
                    \o <<"/">>))

Cropped ==
    \E width \in Dims, height \in Dims :
        OneShot("cropped", CroppedRun(f, width, height), None)

Resized ==
    \E width \in Dims, height \in Dims :
        OneShot("resized", ResizedRun(f, width, height), None)

\* ------------------------------------------- File: calls of several steps
\* the running call raises exc
Raise(exc) ==
    /\ pc' = "idle"
    /\ outcome' = exc
    /\ ret' = None

\* the running call returns None
Return ==
    /\ pc' = "idle"
    /\ outcome' = "returned"
    /\ ret' = None

\* an evaluation that issues the requests and leaves the handle's info alone
Evaluated_KeepInfo(r, resp) ==
    /\ f' = f
    /\ log' = log \o r.log
    /\ lastResp' = IF r.log = << >> THEN lastResp ELSE resp
    /\ never_on_s3' = (never_on_s3 /\ (r.log = << >> \/ OnS3False(resp)))

\* the running call evaluated an accessor with result r, the server answering
\* resp to the request it issued, if any
Evaluated(r, resp) ==
    /\ f' = After(f, r)
    /\ log' = log \o r.log
    /\ lastResp' = IF r.log = << >> THEN lastResp ELSE resp
    /\ never_on_s3' = (never_on_s3 /\ (r.log = << >> \/ OnS3False(resp)))

\* the wait loop of the running call exits, with info cached and n requests
\* issued so far
LoopExit(info, n) == [t |-> "exit", info |-> info, at |-> n]

\* the start of a call of several steps
Begin(call, reqs, next) ==
    /\ pc = "idle" /\ f # NoFile
    /\ op' = call
    /\ outcome' = "running"
    /\ ret' = None
    /\ clock' = 0
    /\ time_started' = 0
    /\ log' = reqs
    /\ lastResp' = None
    /\ loopExit' = None
    /\ pc' = next
    /\ UNCHANGED <<ident, gident, g, f, never_on_s3>>

\* store that enters the wait loop whatever wait is
StoreBegin_AlwaysWait(wait, timeout) ==
    Begin(Call("store", wait, timeout), <<PutFileStorage(f)>>, "store_check")

\* File.store, line 81 to the loop entry
StoreBegin(wait, timeout) ==
    Begin(Call("store", wait, timeout), <<PutFileStorage(f)>>,
          IF wait THEN "store_check" ELSE "final")

\* File.store, lines 85-87: the loop condition and the deadline
StoreCheck ==
    /\ pc = "store_check"
    /\ \E resp \in FileInfos :
        LET r == OnS3AndStored(f, resp)
        IN /\ Evaluated(r, resp)
           /\ IF r.exc # "none"
              THEN Raise(r.exc) /\ UNCHANGED loopExit
              ELSE IF r.value.b
              THEN /\ pc' = "cdn_pre"
                   /\ loopExit' = LoopExit(r.info, Len(log'))
                   /\ UNCHANGED <<outcome, ret>>
              ELSE IF Expired(clock, time_started, op.timeout)
              THEN Raise("TimeoutError") /\ UNCHANGED loopExit
              ELSE /\ pc' = "store_poll"
                   /\ UNCHANGED <<outcome, ret, loopExit>>
    /\ UNCHANGED <<ident, gident, g, op, clock, time_started>>

\* the loop body of store, delete: self.update_info(); time.sleep(0.1)
Poll(next) ==
    /\ \E resp \in FileInfos : Evaluated(UpdateInfoRun(f, resp), resp)
    /\ clock' = clock + SleepTime
    /\ pc' = next
    /\ UNCHANGED <<ident, gident, g, op, outcome, ret, time_started, loopExit>>

\* File.store, lines 88-89
StorePoll == pc = "store_poll" /\ Poll("store_check")

\* File.ensure_on_cdn called by the user
EnsureOnCdnBegin(timeout) ==
    Begin(Call("ensure_on_cdn", FALSE, timeout), << >>, "cdn_pre")

\* an ensure_on_cdn that store calls with its own timeout
CdnTimeout_Caller == op.timeout

\* the timeout of the running ensure_on_cdn: store passes none
CdnTimeout == IF op.name = "ensure_on_cdn" THEN op.timeout ELSE DefaultTimeout

\* File.ensure_on_cdn, lines 114-118
EnsureOnCdnPre ==
    /\ pc = "cdn_pre"
    /\ \E resp \in FileInfos :
        LET r == CdnPrecondition(f, resp)
        IN /\ Evaluated(r, resp)
           /\ IF r.exc # "none"
              THEN Raise(r.exc) /\ UNCHANGED time_started
              ELSE /\ pc' = "cdn_check"
                   /\ time_started' = clock
                   /\ UNCHANGED <<outcome, ret>>
    /\ UNCHANGED <<ident, gident, g, op, clock, loopExit>>

\* File.ensure_on_cdn, lines 119-126: one turn of the loop
EnsureOnCdnCheck ==
    /\ pc = "cdn_check"
    /\ IF Expired(clock, time_started, CdnTimeout)
       THEN /\ Raise("TimeoutError")
            /\ UNCHANGED <<clock, log, lastResp>>
       ELSE \E status \in HeadStatuses :
            /\ log' = Append(log, HeadCdn(f, status))
            /\ lastResp' = None
            /\ IF HeadOk(status)
               THEN /\ UNCHANGED clock
                    /\ IF op.name \in {"store", "keep"}
                       THEN pc' = "final" /\ UNCHANGED <<outcome, ret>>
                       ELSE Return
               ELSE /\ clock' = clock + SleepTime
                    /\ pc' = "cdn_check"
                    /\ UNCHANGED <<outcome, ret>>
    /\ UNCHANGED <<ident, gident, g, f, op, time_started, loopExit, never_on_s3>>

\* File.store line 91, File.delete line 103: the final update_info
FinalUpdateInfo ==
    /\ pc = "final"
    /\ \E resp \in FileInfos : Evaluated(UpdateInfoRun(f, resp), resp)
    /\ Return
    /\ UNCHANGED <<ident, gident, g, op, clock, time_started, loopExit>>

\* File.delete, line 94 to the loop entry
DeleteBegin(wait, timeout) ==
    Begin(Call("delete", wait, timeout), <<DeleteFile(f)>>,
          IF wait THEN "delete_check" ELSE "final")

\* File.delete, lines 98-100
DeleteCheck ==
    /\ pc = "delete_check"
    /\ \E resp \in FileInfos :
        LET r == IsRemovedGet(f, resp)
        IN /\ Evaluated(r, resp)
           /\ IF r.exc # "none"
              THEN Raise(r.exc) /\ UNCHANGED loopExit
              ELSE IF r.value.b
              THEN /\ pc' = "final"
                   /\ loopExit' = LoopExit(r.info, Len(log'))
                   /\ UNCHANGED <<outcome, ret>>
              ELSE IF Expired(clock, time_started, op.timeout)
              THEN Raise("TimeoutError") /\ UNCHANGED loopExit
              ELSE /\ pc' = "delete_poll"
                   /\ UNCHANGED <<outcome, ret, loopExit>>
    /\ UNCHANGED <<ident, gident, g, op, clock, time_started>>

\* File.delete, lines 101-102
DeletePoll == pc = "delete_poll" /\ Poll("delete_check")

\* File.keep: self.store(**kwargs)
KeepBegin(wait, timeout) ==
    Begin(Call("keep", wait, timeout), <<PutFileStorage(f)>>,
          IF wait THEN "store_check" ELSE "final")

\* File.ensure_on_s3, line 106
EnsureOnS3Begin(timeout) ==
    Begin(Call("ensure_on_s3", FALSE, timeout), << >>, "s3_check")

\* File.ensure_on_s3, lines 107-109
EnsureOnS3Check ==
    /\ pc = "s3_check"
    /\ \E resp \in FileInfos :
        LET r == IsOnS3Get(f, resp)
        IN /\ Evaluated(r, resp)
           /\ IF r.exc # "none"
              THEN Raise(r.exc) /\ UNCHANGED loopExit
              ELSE IF r.value.b
              THEN /\ Return
                   /\ loopExit' = LoopExit(r.info, Len(log'))
              ELSE IF Expired(clock, time_started, op.timeout)
              THEN Raise("TimeoutError") /\ UNCHANGED loopExit
              ELSE /\ pc' = "s3_poll"
                   /\ UNCHANGED <<outcome, ret, loopExit>>
    /\ UNCHANGED <<ident, gident, g, op, clock, time_started>>

\* File.ensure_on_s3, lines 110-111
EnsureOnS3Poll == pc = "s3_poll" /\ Poll("s3_check")

Store == \E wait \in BOOLEAN, timeout \in Timeouts : StoreBegin(wait, timeout)
Keep == \E wait \in BOOLEAN, timeout \in Timeouts : KeepBegin(wait, timeout)
EnsureOnS3 == \E timeout \in Timeouts : EnsureOnS3Begin(timeout)
\* the polling calls with timeout=0: the loop runs once
StoreOnce == \E wait \in BOOLEAN : StoreBegin(wait, 0)
KeepOnce == \E wait \in BOOLEAN : KeepBegin(wait, 0)
DeleteOnce == \E wait \in BOOLEAN : DeleteBegin(wait, 0)
EnsureOnS3Once == EnsureOnS3Begin(0)
EnsureOnCdnOnce == EnsureOnCdnBegin(0)
\* store() and delete(), with the default wait=False
StoreNoWait == StoreBegin(FALSE, DefaultTimeout)
DeleteNoWait == DeleteBegin(FALSE, DefaultTimeout)
Delete == \E wait \in BOOLEAN, timeout \in Timeouts : DeleteBegin(wait, timeout)
EnsureOnCdn == \E timeout \in Timeouts : EnsureOnCdnBegin(timeout)

\* ---------------------------------------------------------- FileGroup
\* no file record of a group response reports on_s3 true
NoFileOnS3(resp) ==
    HasKey(resp, "files") =>
        \A i \in 1..Len(resp.files) :
            resp.files[i] = None \/ OnS3False(resp.files[i])

\* FileGroup.update_info
GroupUpdateInfoRun(gr, resp) == Result(resp, <<GetGroup(gr)>>, "none", None)

\* an info accessor that tests the truth value of the cache, as File.info does
GroupInfoGet_Truthy(gr, resp) ==
    IF ~Truthy(gr._info_cache)
    THEN Result(resp, <<GetGroup(gr)>>, "none", resp)
    ELSE Result(gr._info_cache, << >>, "none", gr._info_cache)

\* FileGroup.info
GroupInfoGet(gr, resp) ==
    IF gr._info_cache = None
    THEN Result(resp, <<GetGroup(gr)>>, "none", resp)
    ELSE Result(gr._info_cache, << >>, "none", gr._info_cache)

\* self.info[key]
GroupInfoItem(gr, resp, key) ==
    LET r == GroupInfoGet(gr, resp)
    IN IF HasKey(r.value, key)
       THEN Result(r.info, r.log, "none", r.value[key])
       ELSE Result(r.info, r.log, "KeyError", None)

\* FileGroup.is_stored
GroupIsStoredGet(gr, resp) ==
    LET r == GroupInfoItem(gr, resp, "datetime_stored")
    IN IF r.exc = "none" THEN [r EXCEPT !.value = Bool(r.value # None)] ELSE r

\* store that issues the PUT without looking at is_stored
GroupStoreRun_Always(gr, resp, put) ==
    Result(put, <<PutGroupStorage(gr)>>, "none", None)

\* store that refreshes after the PUT instead of installing its response
GroupStoreRun_Refresh(gr, resp, put) ==
    LET a == GroupIsStoredGet(gr, resp)
    IN IF a.exc # "none" THEN a
       ELSE IF a.value.b THEN [a EXCEPT !.value = None]
       ELSE Result(resp, a.log \o <<PutGroupStorage(gr), GetGroup(gr)>>,
                   "none", None)

\* FileGroup.store; put is what the server answers to the PUT
GroupStoreRun(gr, resp, put) ==
    LET a == GroupIsStoredGet(gr, resp)
    IN IF a.exc # "none" THEN a
       ELSE IF a.value.b THEN [a EXCEPT !.value = None]
       ELSE Result(put, Append(a.log, PutGroupStorage(gr)), "none", None)

\* list[key] for an integer key: the position in the list, 0 for IndexError
ListIndex(n, key) ==
    LET k == IF key < 0 THEN key + n ELSE key
    IN IF k >= 0 /\ k < n THEN k + 1 ELSE 0

\* FileGroup.__getitem__ for an integer key; the value is the File handle
GroupGetItemRun(gr, resp, key) ==
    LET a == GroupInfoItem(gr, resp, "files")
        i == ListIndex(Len(a.value), key)
    IN IF a.exc # "none" THEN a
       ELSE IF i = 0 THEN [a EXCEPT !.exc = "IndexError", !.value = None]
       ELSE IF a.value[i] = None
       THEN [a EXCEPT !.exc = "TypeError", !.value = None]
       ELSE IF load_file_from_cache(a.value[i]) = NoFile
       THEN [a EXCEPT !.exc = "InvalidRequestError", !.value = None]
       ELSE [a EXCEPT !.value = load_file_from_cache(a.value[i])]

\* a list of File handles
ListVal(items) == [t |-> "list", items |-> items]

\* what load_file_from_cache raises on file_info, "none" if it returns
LoadExc(file_info) ==
    IF file_info = None THEN "TypeError"
    ELSE IF ~HasKey(file_info, "uuid") THEN "KeyError"
    ELSE IF load_file_from_cache(file_info) = NoFile
    THEN "InvalidRequestError"
    ELSE "none"

\* the loops of lines 252-254 and 264-266: the handles of the records, or
\* the exception of the first record that has none
RECURSIVE LoadFiles(_)
LoadFiles(infos) ==
    IF infos = << >> THEN [exc |-> "none", items |-> << >>]
    ELSE LET rest == LoadFiles(Tail(infos))
         IN IF LoadExc(Head(infos)) # "none"
            THEN [exc |-> LoadExc(Head(infos)), items |-> << >>]
            ELSE IF rest.exc # "none" THEN rest
            ELSE [exc |-> "none",
                  items |-> <<load_file_from_cache(Head(infos))>>
                            \o rest.items]

\* list[a:b]: a and b are None or integers
SliceIndex(n, k, default) ==
    IF k = None THEN default
    ELSE IF k.n < 0 THEN (IF k.n + n < 0 THEN 0 ELSE k.n + n)
    ELSE IF k.n > n THEN n ELSE k.n
Slice(l, a, b) ==
    SubSeq(l, SliceIndex(Len(l), a, 0) + 1, SliceIndex(Len(l), b, Len(l)))

\* FileGroup.__getitem__ for a slice key; the value is the list of handles
GroupSliceRun(gr, resp, a, b) ==
    LET r == GroupInfoItem(gr, resp, "files")
    IN IF r.exc # "none" THEN r
       ELSE LET fs == LoadFiles(Slice(r.value, a, b))
            IN IF fs.exc # "none"
               THEN [r EXCEPT !.exc = fs.exc, !.value = None]
               ELSE [r EXCEPT !.value = ListVal(fs.items)]

\* FileGroup.files
GroupFilesRun(gr, resp) ==
    LET r == GroupInfoItem(gr, resp, "files")
    IN IF r.exc # "none" THEN r
       ELSE LET fs == LoadFiles(r.value)
            IN IF fs.exc # "none"
               THEN [r EXCEPT !.exc = fs.exc, !.value = None]
               ELSE [r EXCEPT !.value = ListVal(fs.items)]

\* what the server may answer to the GET of the info accessor of the group
\* gr: the accessor asks nothing when the cache is filled
GroupAnswers(gr) ==
    IF gr = NoGroup THEN {}
    ELSE IF gr._info_cache = None THEN GroupInfos
    ELSE {None}

\* the call ran from start to end on the group, with result r; resp
\* answered its GET and put its PUT, if it issued them
GroupShotOp(call, r, resp, put) ==
    /\ pc = "idle" /\ g # NoGroup
    /\ op' = call
    /\ g' = [g EXCEPT !._info_cache = r.info]
    /\ log' = r.log
    /\ lastResp' = IF r.log = << >> THEN None
                   ELSE IF r.log[Len(r.log)] = PutGroupStorage(g) THEN put
                   ELSE resp
    /\ never_on_s3' =
        /\ never_on_s3
        /\ \A i \in 1..Len(r.log) :
            NoFileOnS3(IF r.log[i] = PutGroupStorage(g) THEN put ELSE resp)
    /\ outcome' = IF r.exc = "none" THEN "returned" ELSE r.exc
    /\ ret' = r.value
    /\ clock' = 0
    /\ time_started' = 0
    /\ loopExit' = None
    /\ UNCHANGED <<gident, pc>>

GroupShot(name, r, resp, put) ==
    GroupShotOp(Call(name, FALSE, 0), r, resp, put)

\* FileGroup(s, ucare): the group it yields becomes the group of the model;
\* none is left when the constructor raises
GroupInit ==
    \E s \in GroupStrings :
        /\ pc = "idle"
        /\ op' = Call("group.__init__", FALSE, 0)
        /\ gident' = s
        /\ g' = NewGroup(s)
        /\ outcome' = IF NewGroup(s) = NoGroup THEN "InvalidRequestError"
                      ELSE "returned"
        /\ ret' = None
        /\ log' = << >>
        /\ lastResp' = None
        /\ clock' = 0
        /\ time_started' = 0
        /\ loopExit' = None
        /\ UNCHANGED <<ident, f, pc, never_on_s3>>

\* FileGroup.__len__
GroupLenRun(gr) == Result(gr._info_cache, << >>, "none", IntVal(gr._files_qty))

GroupLen ==
    /\ GroupShot("group.__len__", GroupLenRun(g), None, None)
    /\ UNCHANGED <<ident, f>>

GroupUpdateInfo ==
    \E resp \in GroupInfos :
        /\ GroupShot("group.update_info",
                     GroupUpdateInfoRun(g, resp), resp, resp)
        /\ UNCHANGED <<ident, f>>

GroupInfo ==
    \E resp \in GroupAnswers(g) :
        /\ GroupShot("group.info", GroupInfoGet(g, resp), resp, resp)
        /\ UNCHANGED <<ident, f>>

GroupIsStored ==
    \E resp \in GroupAnswers(g) :
        /\ GroupShot("group.is_stored",
                     GroupIsStoredGet(g, resp), resp, resp)
        /\ UNCHANGED <<ident, f>>

GroupStore ==
    \E resp \in GroupAnswers(g), put \in GroupInfos :
        /\ GroupShot("group.store",
                     GroupStoreRun(g, resp, put), resp, put)
        /\ UNCHANGED <<ident, f>>

\* the integer keys tried
MaxKey == 2
Keys == (0 - MaxKey - 1)..MaxKey

\* group[key]: the handle it returns becomes the File handle of the model
GroupGetItem ==
    \E resp \in GroupAnswers(g), key \in Keys :
        LET r == GroupGetItemRun(g, resp, key)
        IN /\ GroupShotOp([name |-> "group.__getitem__", wait |-> FALSE,
                           timeout |-> 0, key |-> key], r, resp, resp)
           /\ IF r.exc = "none"
              THEN f' = r.value /\ ident' = r.value.file_id.s
              ELSE UNCHANGED <<ident, f>>

\* the bounds of the slices tried: none, and the integers up to MaxSlice
\* either way
MaxSlice == 1
SliceKeys == {None} \cup {IntVal(k) : k \in (0 - MaxSlice)..MaxSlice}

\* the caller takes one of the handles of the list it got for the File
\* handle of the model, if there is one
TakeOne(r) ==
    IF r.exc = "none" /\ r.value.items # << >>
    THEN \E i \in 1..Len(r.value.items) :
            /\ f' = r.value.items[i]
            /\ ident' = r.value.items[i].file_id.s
    ELSE UNCHANGED <<ident, f>>

\* group[a:b]
GroupSlice ==
    \E resp \in GroupAnswers(g), a \in SliceKeys, b \in SliceKeys :
        LET r == GroupSliceRun(g, resp, a, b)
        IN /\ GroupShotOp([name |-> "group.__getslice__", wait |-> FALSE,
                           timeout |-> 0, start |-> a, stop |-> b],
                          r, resp, resp)
           /\ TakeOne(r)

\* group.files
GroupFiles ==
    \E resp \in GroupAnswers(g) :
        LET r == GroupFilesRun(g, resp)
        IN /\ GroupShot("group.files", r, resp, resp)
           /\ TakeOne(r)

\* the accessors of a File handle
NextRead ==
    \/ UpdateInfo \/ Info \/ IsOnS3 \/ IsStored \/ IsRemoved \/ Url \/ Serialize

\* the polling calls of a File handle
NextPoll ==
    \/ UpdateInfo
    \/ Store \/ StoreCheck \/ StorePoll
    \/ EnsureOnCdn \/ EnsureOnCdnPre \/ EnsureOnCdnCheck
    \/ Delete \/ DeleteCheck \/ DeletePoll
    \/ FinalUpdateInfo

\* every operation of a File handle
NextFile ==
    \/ NextRead
    \/ CdnUrl \/ Filename \/ Cropped \/ Resized
    \/ StoreOnce \/ KeepOnce \/ StoreCheck \/ StorePoll
    \/ EnsureOnCdnOnce \/ EnsureOnCdnPre \/ EnsureOnCdnCheck
    \/ DeleteOnce \/ DeleteCheck \/ DeletePoll
    \/ EnsureOnS3Once \/ EnsureOnS3Check \/ EnsureOnS3Poll
    \/ FinalUpdateInfo

\* the calls of a FileGroup handle
NextGroup ==
    \/ GroupUpdateInfo \/ GroupInfo \/ GroupIsStored \/ GroupStore
    \/ GroupGetItem \/ GroupSlice \/ GroupFiles
    \/ GroupInit \/ GroupLen

\* a FileGroup handle and a File handle obtained from it
NextShare ==
    \/ GroupGetItem \/ GroupSlice \/ GroupFiles
    \/ GroupUpdateInfo \/ GroupStore
    \/ UpdateInfo
    \/ StoreNoWait \/ DeleteNoWait \/ FinalUpdateInfo

\* the construction of File handles
NextNew ==
    \/ FileInit \/ LoadFileFromCache \/ FromCdnUrl \/ CdnUrl

Next ==
    \/ NextFile \/ NextPoll \/ Keep \/ EnsureOnS3
    \/ NextGroup \/ NextShare \/ NextNew

Spec == Init /\ [][Next]_vars
\* a File handle on which only the accessors are called
SpecRead == Init /\ [][NextRead]_vars
\* a File handle on which only the polling calls and update_info are called
SpecPoll == Init /\ [][NextPoll]_vars
\* a FileGroup handle
\* a File handle on which every operation is called
SpecFile == Init /\ [][NextFile]_vars
SpecGroup == Init /\ [][NextGroup]_vars
\* a FileGroup handle, and the calls of a File handle obtained from it
SpecShare == Init /\ [][NextShare]_vars
\* File handles constructed from strings and from cached records
SpecNew == Init /\ [][NextNew]_vars
\* ------------------------------------------------------------ the claims
\* the request l[i] is a HEAD
NoHead(l) == \A i \in 1..Len(l) : l[i][1] # "HEAD"
Returned == pc = "idle" /\ outcome = "returned"
StoreWaitCall == op.name = "store" /\ op.wait

\* C1: store(wait=True, timeout=T), while every metadata response has had
\* on_s3 false, stays in the polling loop, issues no HEAD request, polls no
\* longer than one sleep past T, ends only by TimeoutError and not before the
\* clock has passed T since loop entry; and the loop check that finds the
\* clock past T raises TimeoutError.
C1_State ==
    (StoreWaitCall /\ never_on_s3) =>
        /\ pc \in {"store_check", "store_poll", "idle"}
        /\ NoHead(log)
        /\ pc = "idle" =>
            outcome = "TimeoutError" /\ clock - time_started > op.timeout
        /\ pc = "store_check" =>
            \/ clock = time_started
            \/ clock - time_started <= op.timeout + SleepTime
        /\ pc = "store_poll" => clock - time_started <= op.timeout
C1_Step ==
    (pc = "store_check" /\ never_on_s3' /\ clock - time_started > op.timeout)
        => (pc' = "idle" /\ outcome' = "TimeoutError")
C1_StoreTimesOut == [](C1_State) /\ [][C1_Step]_vars
\* store(wait=True) has raised TimeoutError after polling at least once
C1_Witness ==
    /\ StoreWaitCall /\ never_on_s3
    /\ pc = "idle" /\ outcome = "TimeoutError"
    /\ Len(log) >= 2 /\ log[2] = GetFile(f)

\* C2: when store(wait=True) has returned, its wait loop exited with on_s3
\* true and last_keep_claim non-null in the cached info, and between that
\* exit and the final GET a HEAD to cdn_url was answered 200.
C2_StoreReturned ==
    (StoreWaitCall /\ Returned) =>
        /\ loopExit # None
        /\ HasKey(loopExit.info, "on_s3")
        /\ loopExit.info.on_s3
        /\ loopExit.info.last_keep_claim # None
        /\ log[Len(log)] = GetFile(f)
        /\ \E i \in (loopExit.at + 1)..(Len(log) - 1) : log[i] = HeadCdn(f, 200)
\* store(wait=True) has returned after a poll and a HEAD that was not 200
C2_Witness ==
    /\ StoreWaitCall /\ Returned
    /\ loopExit.at >= 2
    /\ Len(log) >= loopExit.at + 3

\* C3: when store or delete has returned, with wait or without, the last
\* request of the call is GET /files/{uuid}/ and the handle's info is the
\* response to it.
C3_FinalRefresh ==
    (op.name \in {"store", "delete"} /\ Returned) =>
        /\ log # << >>
        /\ log[Len(log)] = GetFile(f)
        /\ f._info = lastResp
\* delete(wait=True) has returned after polling
C3_Witness ==
    /\ op.name = "delete" /\ op.wait /\ Returned
    /\ Len(log) >= 3

\* C4: when the info ensure_on_cdn checks has on_s3 false or last_keep_claim
\* null, the check ends the call at once with InvalidRequestError: no HEAD
\* request, and no request at all if the info was cached.
C4_Step ==
    (/\ pc = "cdn_pre"
     /\ HasKey(f'._info, "on_s3")
     /\ (~f'._info.on_s3 \/ f'._info.last_keep_claim = None))
        => /\ pc' = "idle"
           /\ outcome' = "InvalidRequestError"
           /\ NoHead(log')
           /\ Truthy(f._info) => log' = log
C4_Precondition == [][C4_Step]_vars
\* ensure_on_cdn has refused a file that is on S3 but not stored
C4_Witness ==
    /\ op.name = "ensure_on_cdn" /\ pc = "idle"
    /\ outcome = "InvalidRequestError"
    /\ log = << >>
    /\ HasKey(f._info, "on_s3") /\ f._info.on_s3
    /\ f._info.last_keep_claim = None

\* the group info d reports the group stored, not stored
GroupStored(d) == HasKey(d, "datetime_stored") /\ d.datetime_stored # None
GroupNotStored(d) == HasKey(d, "datetime_stored") /\ d.datetime_stored = None
PutIn(l) == \E i \in 1..Len(l) : l[i][1] = "PUT"

\* C5 as stated: whenever FileGroup.store() finds the group already stored
\* (and so returns without a PUT), it has issued no request at all, whatever
\* the info cache held.
C5_Original ==
    (/\ op.name = "group.store" /\ outcome = "returned"
     /\ GroupStored(g._info_cache) /\ ~PutIn(log))
        => log = << >>
\* C5 amended: FileGroup.store() on a handle whose cached info has
\* datetime_stored non-null issues no request and leaves the handle as it
\* is; on a handle with no cached info it first issues GET
\* /groups/{group_id}/, and if it then returns without a PUT that GET was
\* its only request and reported the group stored.
C5_Step ==
    op'.name = "group.store" =>
        /\ GroupStored(g._info_cache) =>
            log' = << >> /\ outcome' = "returned" /\ g' = g
        /\ g._info_cache = None =>
            /\ log' # << >> /\ log'[1] = GetGroup(g)
            /\ (outcome' = "returned" /\ ~PutIn(log')) =>
                log' = <<GetGroup(g)>> /\ GroupStored(g'._info_cache)
C5_StoreWhenStored == [][C5_Step]_vars
\* store() has returned without a request on a group cached as stored
C5_Witness ==
    /\ op.name = "group.store" /\ outcome = "returned"
    /\ GroupStored(g._info_cache) /\ log = << >>

\* C6: FileGroup.store() on a handle whose cached info has datetime_stored
\* null issues the PUT as its only request; whenever store() issues the PUT
\* it is the one PUT and the last request of the call and its response
\* becomes the info cache; and an info read on a handle with a cached info
\* returns it without a request.
C6_Step ==
    /\ op'.name = "group.store" =>
        /\ GroupNotStored(g._info_cache) =>
            log' = <<PutGroupStorage(g)>> /\ outcome' = "returned"
        /\ PutIn(log') =>
            /\ log'[Len(log')] = PutGroupStorage(g)
            /\ \A i \in 1..(Len(log') - 1) : log'[i] = GetGroup(g)
            /\ g'._info_cache = lastResp'
    /\ (op'.name = "group.info" /\ g._info_cache # None) =>
        log' = << >> /\ ret' = g._info_cache /\ g' = g
C6_StoreInstallsResponse == [][C6_Step]_vars
\* store() has fetched the info, issued the PUT and installed its response
C6_Witness ==
    /\ op.name = "group.store" /\ outcome = "returned"
    /\ log = <<GetGroup(g), PutGroupStorage(g)>>
    /\ g._info_cache = lastResp

\* the value v is a URL
IsUrl(v) == v.t = "str" /\ StartsWithHttp(v.s)
\* the handle was constructed from a URL, from a bare UUID
FromUrl == StartsWithHttp(ident)
FromBareUuid == Len(ident) = 1 /\ ident[1] \in UuidTokens

\* C7 as stated: serialize() returns file_id when no metadata has been
\* fetched and the handle was not built from a URL, and once metadata has
\* been fetched it returns a URL: the cached URL if built from one, else
\* info.original_file_url.
C7_OriginalStep ==
    op'.name = "serialize" =>
        /\ (f._info = None /\ ~FromUrl) => ret' = f.file_id
        /\ f._info # None =>
            /\ IsUrl(ret')
            /\ FromUrl => ret' = f._cached_url
            /\ (~FromUrl /\ HasKey(f._info, "original_file_url")) =>
                ret' = f._info.original_file_url
C7_Original == [][C7_OriginalStep]_vars
\* C7 amended: serialize() returns url (the cached URL if the handle was
\* built from one, else info.original_file_url) exactly when the cached
\* metadata is a non-empty mapping and that url is non-empty; in every other
\* case (no metadata, an empty mapping, a null url) it returns file_id.
C7_Step ==
    op'.name = "serialize" =>
        /\ outcome' = "returned"
        /\ ret' = IF ~Truthy(f._info) THEN f.file_id
                  ELSE IF Truthy(f._cached_url) THEN f._cached_url
                  ELSE IF Truthy(f._info.original_file_url)
                  THEN f._info.original_file_url
                  ELSE f.file_id
C7_Serialize == [][C7_Step]_vars
\* serialize() has returned info.original_file_url
C7_Witness ==
    /\ op.name = "serialize" /\ outcome = "returned"
    /\ f._cached_url = None
    /\ HasKey(f._info, "original_file_url")
    /\ IsUrl(ret) /\ ret = f._info.original_file_url

\* C8: serialize() issues no request and leaves the handle, its cached info
\* included, as it is.
C8_Step == op'.name = "serialize" => (log' = << >> /\ f' = f)
C8_SerializeIsPure == [][C8_Step]_vars
\* serialize() has run on a handle without metadata and without a cached URL
C8_Witness ==
    /\ op.name = "serialize" /\ outcome = "returned"
    /\ f._info = None /\ f._cached_url = None

\* C9 as stated: url of a handle built from a URL is that string, without a
\* request; url of a handle built from a bare UUID is info.original_file_url
\* and issues the GET only if no metadata is cached.
C9_OriginalStep ==
    op'.name = "url" =>
        /\ FromUrl =>
            ret' = Str(ident) /\ log' = << >> /\ outcome' = "returned"
        /\ FromBareUuid =>
            /\ outcome' = "returned" => ret' = f'._info.original_file_url
            /\ log' # << >> => f._info = None
C9_Original == [][C9_OriginalStep]_vars

\* C10 as stated: once info has been populated, reading info, is_on_s3,
\* is_stored or is_removed issues no request.
C10_OriginalStep ==
    (/\ op'.name \in {"info", "is_on_s3", "is_stored", "is_removed"}
     /\ f._info # None)
        => log' = << >>
C10_Original == [][C10_OriginalStep]_vars

\* the handle's info d has the field removed, null
NotRemoved(d) == HasKey(d, "removed") /\ d.removed = None
DeleteWaitCall == op.name = "delete" /\ op.wait

\* C11: delete(wait=True, timeout=T) issues DELETE /files/{uuid}/ once, as
\* its first request, and after it only GET /files/{uuid}/; it returns only
\* after its wait loop exited with removed non-null in the cached info; it
\* raises TimeoutError only with the clock past T since loop entry, and the
\* loop check that reads removed null goes on polling while the clock has
\* not passed T and raises TimeoutError once it has.
C11_State ==
    DeleteWaitCall =>
        /\ log # << >> /\ log[1] = DeleteFile(f)
        /\ \A i \in 2..Len(log) : log[i] = GetFile(f)
        /\ Returned =>
            /\ loopExit # None
            /\ HasKey(loopExit.info, "removed")
            /\ loopExit.info.removed # None
        /\ (pc = "idle" /\ outcome = "TimeoutError") =>
            clock - time_started > op.timeout
        /\ pc = "delete_check" =>
            \/ clock = time_started
            \/ clock - time_started <= op.timeout + SleepTime
C11_Step ==
    (pc = "delete_check" /\ NotRemoved(f'._info)) =>
        IF clock - time_started > op.timeout
        THEN pc' = "idle" /\ outcome' = "TimeoutError"
        ELSE pc' = "delete_poll" /\ outcome' = "running"
C11_DeleteWaits == [](C11_State) /\ [][C11_Step]_vars
\* delete(wait=True) has raised TimeoutError after polling
C11_Witness ==
    /\ DeleteWaitCall /\ pc = "idle" /\ outcome = "TimeoutError"
    /\ Len(log) >= 2 /\ NotRemoved(f._info)

\* C12: store(wait=False) issues PUT /files/{uuid}/storage/ and then GET
\* /files/{uuid}/ and nothing else, and returns: no HEAD request, no
\* TimeoutError, no InvalidRequestError, whatever the metadata.
C12_StoreNoWait ==
    (op.name = "store" /\ ~op.wait) =>
        \/ /\ pc = "final" /\ outcome = "running"
           /\ log = <<PutFileStorage(f)>>
        \/ /\ pc = "idle" /\ outcome = "returned"
           /\ log = <<PutFileStorage(f), GetFile(f)>>
\* store(wait=False) has returned on a file that is not on S3
C12_Witness ==
    /\ op.name = "store" /\ ~op.wait /\ Returned
    /\ HasKey(f._info, "on_s3") /\ ~f._info.on_s3
    /\ f._info.last_keep_claim = None

\* the file count GROUP_ID_REGEX finds in the string s
ParsedQty(s) == IntOf(DigitRun(SubSeq(s, GroupPos(s) + 2, Len(s))))

\* C13: a FileGroup constructed from a string whose file count is 0 does not
\* exist (the constructor raised InvalidRequestError), one constructed from a
\* string with a count of 1 or more exists with that count as its length;
\* len(group) issues no request, leaves the group as it is and returns the
\* count, whatever was refreshed or stored before.
C13_State ==
    GroupPos(gident) # 0 =>
        IF ParsedQty(gident) = 0
        THEN g = NoGroup /\ outcome = "InvalidRequestError"
        ELSE g # NoGroup /\ g._files_qty = ParsedQty(gident)
C13_Step ==
    op'.name = "group.__len__" =>
        /\ outcome' = "returned"
        /\ ret' = IntVal(ParsedQty(gident))
        /\ log' = << >>
        /\ g' = g
C13_GroupLength == [](C13_State) /\ [][C13_Step]_vars
\* len(group) has returned the count of the identifier on a group whose
\* fetched info lists another number of files
C13_Witness ==
    /\ op.name = "group.__len__" /\ outcome = "returned"
    /\ HasKey(g._info_cache, "files")
    /\ ret.n # Len(g._info_cache.files)
    /\ ret.n = 10

\* the string s holds no UUID; the value v is one UUID
NoUuidIn(s) == \A i \in 1..Len(s) : s[i] \notin UuidTokens
IsUuid(v) == v.t = "str" /\ Len(v.s) = 1 /\ v.s[1] \in UuidTokens
Constructing == op'.name \in {"File.__init__", "load_file_from_cache"}

\* C14: the file_id of every File handle is a UUID; File(s) and
\* load_file_from_cache on a uuid field s raise InvalidRequestError and leave
\* no handle when s holds no UUID; and when s is one bare UUID the handle has
\* that file_id and no default_effects.
C14_State == f # NoFile => IsUuid(f.file_id)
C14_Step ==
    (Constructing /\ outcome' # "KeyError") =>
        /\ NoUuidIn(ident') =>
            f' = NoFile /\ outcome' = "InvalidRequestError"
        /\ IsUuid(Str(ident')) =>
            /\ outcome' = "returned"
            /\ f' # NoFile
            /\ f'.file_id = Str(ident')
            /\ f'.default_effects = None
C14_FileIdIsUuid == [](C14_State) /\ [][C14_Step]_vars
\* load_file_from_cache has refused a record whose uuid field holds no UUID
C14_Witness ==
    /\ op.name = "load_file_from_cache"
    /\ outcome = "InvalidRequestError"
    /\ f = NoFile /\ ident = <<"x">>

\* a handle is constructed from the cdn_url of the handle f
RoundTrip == op'.name = "File.__init__" /\ f # NoFile /\ ident' = FileCdnUrl(f)

\* C15 as stated: a handle constructed from h.cdn_url has the cdn_url, the
\* file_id and the default_effects of h.
C15_OriginalStep ==
    RoundTrip =>
        /\ f' # NoFile
        /\ FileCdnUrl(f') = FileCdnUrl(f)
        /\ f'.file_id = f.file_id
        /\ f'.default_effects = f.default_effects
C15_Original == [][C15_OriginalStep]_vars
\* C15 amended: a handle constructed from h.cdn_url has the cdn_url and the
\* file_id of h, and the default_effects of h when they are a non-empty
\* string; when the default_effects of h are absent or the empty string, the
\* new handle has none.
C15_Step ==
    RoundTrip =>
        /\ f' # NoFile
        /\ FileCdnUrl(f') = FileCdnUrl(f)
        /\ f'.file_id = f.file_id
        /\ f'.default_effects =
            IF Truthy(f.default_effects) THEN f.default_effects ELSE None
C15_CdnUrlRoundTrip == [][C15_Step]_vars
\* a handle with effects has been constructed from the cdn_url of another
C15_Witness ==
    /\ op.name = "File.__init__" /\ f # NoFile
    /\ ident = FileCdnUrl(f)
    /\ f.default_effects = Str(<<"e">>)

\* C16: no step of any operation on a File handle changes its file_id, its
\* default_effects or its cached URL.
C16_Step ==
    /\ f' # NoFile
    /\ f'.file_id = f.file_id
    /\ f'.default_effects = f.default_effects
    /\ f'._cached_url = f._cached_url
C16_Immutable == [][C16_Step]_vars
\* keep(wait=True) has returned on a handle with effects
C16_Witness ==
    /\ op.name = "keep" /\ op.wait /\ Returned
    /\ f.default_effects = Str(<<"e">>)
    /\ f._info # None

\* the handle load_file_from_cache makes of the record d of a group
FreshHandle(d) ==
    [t |-> "File", file_id |-> d.uuid, default_effects |-> None,
     _cached_url |-> None, _info |-> d]
\* the requests l are all GET /groups/{group_id}/
OnlyGroupGets(l) == \A i \in 1..Len(l) : l[i] = GetGroup(g)
\* the handles hs are the fresh handles of the records ds, in order
FreshHandles(hs, ds) ==
    /\ Len(hs) = Len(ds)
    /\ \A k \in 1..Len(ds) : hs[k] = FreshHandle(ds[k])

\* C17: group[i], group[a:b] and group.files return handles newly made of the
\* records of the group's cached files list, each with that record as its
\* info, without a GET /files/ request; no step of update_info, store or
\* delete on a File handle changes the group, and update_info and store of
\* the group leave the File handle as it is.
C17_Step ==
    /\ (op'.name = "group.__getitem__" /\ outcome' = "returned") =>
        LET files == g'._info_cache.files
            i == IF op'.key >= 0 THEN op'.key + 1
                 ELSE Len(files) + op'.key + 1
        IN /\ ret' = FreshHandle(files[i])
           /\ f' = ret'
           /\ OnlyGroupGets(log')
    /\ (op'.name = "group.files" /\ outcome' = "returned") =>
        /\ FreshHandles(ret'.items, g'._info_cache.files)
        /\ OnlyGroupGets(log')
    /\ (op'.name = "group.__getslice__" /\ outcome' = "returned") =>
        /\ FreshHandles(ret'.items,
                        Slice(g'._info_cache.files, op'.start, op'.stop))
        /\ OnlyGroupGets(log')
    /\ op'.name \in {"update_info", "store", "delete"} => g' = g
    /\ op'.name \in {"group.update_info", "group.store"} => f' = f
C17_HandlesOfGroup == [][C17_Step]_vars
\* group[-1] has returned the handle of the last record of the cached list
C17_Witness ==
    /\ op.name = "group.__getitem__" /\ outcome = "returned"
    /\ op.key = -1 /\ log = << >>
    /\ f = ret /\ f._info = FileUploaded
    /\ g._info_cache.files[2] = FileUploaded

\* the reads of a FileGroup handle that go through its info accessor
GroupReads ==
    {"group.__getitem__", "group.__getslice__", "group.files", "group.info",
     "group.is_stored"}

\* C18: a read of group[i], group[a:b], files, info or is_stored on a group
\* whose info cache holds a response issues no request and leaves the group
\* as it is, whatever the response was; on a group whose cache is empty it
\* issues the one GET /groups/{group_id}/ and caches the response.  So reads
\* that follow one another issue one GET at most, the first of them.
C18_Step ==
    op'.name \in GroupReads =>
        IF g._info_cache # None
        THEN log' = << >> /\ g' = g
        ELSE /\ log' = <<GetGroup(g)>>
             /\ g'._info_cache = lastResp'
             /\ g'._info_cache # None
C18_OneGet == [][C18_Step]_vars
\* files has been read, without a request, on a group whose cached response
\* is the empty mapping
C18_Witness ==
    /\ op.name = "group.files" /\ outcome = "KeyError"
    /\ log = << >> /\ g._info_cache = EmptyInfo

\* C19: in store(wait=True, timeout=T) the probe phase takes the time of its
\* own entry for time_started and runs against the default timeout of 5 s,
\* whatever T is and however long the polling took: while the clock has not
\* passed 5 s since that entry the next step is a HEAD request, and once it
\* has the call raises TimeoutError.  So the call raises TimeoutError later
\* than T after it started.
C19_State ==
    StoreWaitCall =>
        /\ pc = "cdn_check" =>
            /\ time_started <= clock
            /\ clock - time_started <= DefaultTimeout + SleepTime
        /\ (pc = "idle" /\ outcome = "TimeoutError" /\ ~NoHead(log)) =>
            /\ clock - time_started > DefaultTimeout
            /\ clock > op.timeout
C19_Step ==
    StoreWaitCall =>
        /\ (pc = "cdn_pre" /\ pc' = "cdn_check") => time_started' = clock
        /\ pc = "cdn_check" =>
            IF clock - time_started > DefaultTimeout
            THEN pc' = "idle" /\ outcome' = "TimeoutError" /\ log' = log
            ELSE /\ outcome' = "running"
                 /\ Len(log') = Len(log) + 1
                 /\ log'[Len(log')][1] = "HEAD"
C19_ProbeDeadline == [](C19_State) /\ [][C19_Step]_vars
\* store(wait=True, timeout=1) has polled, probed the CDN for more than 5 s
\* and raised TimeoutError
C19_Witness ==
    /\ StoreWaitCall /\ op.timeout = 1
    /\ pc = "idle" /\ outcome = "TimeoutError"
    /\ ~NoHead(log)
    /\ time_started > 0
    /\ clock > DefaultTimeout + op.timeout

\* a call of store(wait=True) or delete(wait=True), and its first request
WaitCall(o) == o.name \in {"store", "delete"} /\ o.wait
FirstRequest == IF op.name = "store" THEN PutFileStorage(f) ELSE DeleteFile(f)

\* C20: when store(wait=True) or delete(wait=True) has ended with
\* TimeoutError, its PUT (DELETE) is the first request of the call and every
\* later one is a GET /files/{uuid}/ or a HEAD; the error was raised by a
\* loop check, so before the final refresh; and the handle's info is the
\* response to the last GET of the call, or what it was when the call began
\* if the call issued none: the call leaves the handle as it is when it
\* begins, each of its steps changes the info only by a GET and to the
\* response of that GET, and the step that raises issues no request after
\* that.
C20_State ==
    (WaitCall(op) /\ pc = "idle" /\ outcome = "TimeoutError") =>
        /\ log # << >> /\ log[1] = FirstRequest
        /\ \A i \in 2..Len(log) :
            log[i] = GetFile(f) \/ log[i][1] = "HEAD"
        /\ lastResp # None => f._info = lastResp
        /\ loopExit # None => f._info = loopExit.info
C20_Step ==
    /\ (WaitCall(op') /\ pc = "idle") => (f' = f /\ Len(log') = 1)
    /\ (WaitCall(op) /\ pc # "idle") =>
        /\ f'._info # f._info => Len(log') = Len(log) + 1
        /\ (Len(log') > Len(log) /\ log'[Len(log')] = GetFile(f)) =>
            /\ Len(log') = Len(log) + 1
            /\ f'._info = lastResp'
        /\ (Len(log') > Len(log) /\ log'[Len(log')] # GetFile(f)) =>
            f' = f
        /\ outcome' = "TimeoutError" =>
            pc \in {"store_check", "delete_check", "cdn_check"}
        /\ pc = "final" => outcome' = "returned"
C20_TimeoutLeaves == [](C20_State) /\ [][C20_Step]_vars
\* store(wait=True) has raised TimeoutError at its first loop check, without
\* a request after the PUT, on a handle that keeps the info it had
C20_Witness ==
    /\ WaitCall(op) /\ op.name = "store"
    /\ pc = "idle" /\ outcome = "TimeoutError"
    /\ log = <<PutFileStorage(f)>>
    /\ HasKey(f._info, "on_s3")

====
